---- MODULE Spec2Model ----
(***************************************************************************)
(* The Grove language interpreter (emilynraine/GroveLanguage).             *)
(*                                                                         *)
(* The repository holds three copies of the parse/eval engine:             *)
(*   calc   src/Calc/calc_lang.py        (set, +, -, numbers, names)       *)
(*   suite  src/test_suite/grove_lang.py (the complete Grove engine)       *)
(*   root   src/grove_lang.py            (a Grove engine without its       *)
(*                                        dispatchers)                     *)
(* and the read-eval-print loop src/grove.py, src/test_suite/grove.py.     *)
(*                                                                         *)
(* A line of text is a sequence of one-character strings, a token is a     *)
(* sequence of one-character strings, so that the character tests of the   *)
(* code (isdigit, isalpha, isalnum, replace, split, int) are computed.     *)
(*                                                                         *)
(* Scope.  Characters are ASCII.  The environment of suite is globals()    *)
(* of its module; of the names the module itself owns, the lines of the    *)
(* model can spell verbose, sys, Name, Number and __builtins__.  The host  *)
(* modules are sys and math; of their attributes the model keeps gcd, pi   *)
(* and exit, and __len__ of str and dict.  Diagnostics printed under       *)
(* `verbose` are not modelled.                                             *)
(***************************************************************************)
EXTENDS Integers, Sequences, FiniteSets, TLC

VARIABLES impl, driver, proc, env, last, trace, assigned, muts

vars == <<impl, driver, proc, env, last, trace, assigned, muts>>

(***************************************************************************)
(* Bounds of the model.                                                    *)
(***************************************************************************)
\* operands a, b of the generated lines "+ ( a ) ( b )" range over 0..MaxNum
MaxNum == 1
\* how many lines that change the environment one session may run
MaxMuts == 2
\* the longest token sequence handed to match_parens on its own
MaxParenLen == 5

(***************************************************************************)
(* Characters.                                                             *)
(***************************************************************************)
Lower == {"a","b","c","d","e","f","g","h","i","j","k","l","m",
          "n","o","p","q","r","s","t","u","v","w","x","y","z"}
Upper == {"A","B","C","D","E","F","G","H","I","J","K","L","M",
          "N","O","P","Q","R","S","T","U","V","W","X","Y","Z"}
DigitSeq == <<"0","1","2","3","4","5","6","7","8","9">>
Digits == {DigitSeq[i] : i \in 1..10}

\* str.isalpha, str.isdigit, str.isalnum on one (ASCII) character
isalphaChar(c) == c \in Lower \cup Upper
isdigitChar(c) == c \in Digits
isalnumChar(c) == isalphaChar(c) \/ isdigitChar(c)

\* str.isdigit / str.isalpha / str.isalnum: false on the empty string
isdigit(tok) == Len(tok) > 0 /\ \A i \in 1..Len(tok) : isdigitChar(tok[i])
isalpha(tok) == Len(tok) > 0 /\ \A i \in 1..Len(tok) : isalphaChar(tok[i])
isalnum(tok) == Len(tok) > 0 /\ \A i \in 1..Len(tok) : isalnumChar(tok[i])

DigitVal(c) == (CHOOSE i \in 1..10 : DigitSeq[i] = c) - 1

\* int(tok) for a token of decimal digits
RECURSIVE int(_)
int(tok) ==
    IF Len(tok) = 0 THEN 0
    ELSE 10 * int(SubSeq(tok, 1, Len(tok) - 1)) + DigitVal(tok[Len(tok)])

\* the decimal numeral of n >= 0, as the user types it
RECURSIVE Decimal(_)
Decimal(n) ==
    IF n < 10 THEN <<DigitSeq[n + 1]>>
    ELSE Decimal(n \div 10) \o <<DigitSeq[(n % 10) + 1]>>

\* tok.replace(c, "")
RECURSIVE replace(_, _)
replace(tok, c) ==
    IF Len(tok) = 0 THEN <<>>
    ELSE (IF tok[1] = c THEN <<>> ELSE <<tok[1]>>) \o replace(Tail(tok), c)

\* s.split(sep) for a one-character separator: the pieces, empty ones kept
RECURSIVE splitOn(_, _, _)
splitOn(s, sep, cur) ==
    IF Len(s) = 0 THEN <<cur>>
    ELSE IF s[1] = sep THEN <<cur>> \o splitOn(Tail(s), sep, <<>>)
    ELSE splitOn(Tail(s), sep, Append(cur, s[1]))

\* s.strip().split(): the whitespace-separated tokens, none of them empty
RECURSIVE split(_, _)
split(s, cur) ==
    IF Len(s) = 0 THEN (IF Len(cur) = 0 THEN <<>> ELSE <<cur>>)
    ELSE IF s[1] = " "
         THEN (IF Len(cur) = 0 THEN <<>> ELSE <<cur>>) \o split(Tail(s), <<>>)
    ELSE split(Tail(s), Append(cur, s[1]))

\* s.strip()
RECURSIVE lstrip(_)
lstrip(s) == IF Len(s) > 0 /\ s[1] = " " THEN lstrip(Tail(s)) ELSE s
RECURSIVE rstrip(_)
rstrip(s) ==
    IF Len(s) > 0 /\ s[Len(s)] = " " THEN rstrip(SubSeq(s, 1, Len(s) - 1)) ELSE s
strip(s) == rstrip(lstrip(s))

\* Python slices tokens[a:b] with 0-based a, b already clipped by the caller
Slice(seq, a, b) == SubSeq(seq, a + 1, b)
\* tokens[a:]
From(seq, a) == SubSeq(seq, a + 1, Len(seq))

(***************************************************************************)
(* Tokens of the language and of the input vocabulary.                     *)
(***************************************************************************)
LP == <<"(">>
RP == <<")">>
PLUS == <<"+">>
MINUS == <<"-">>
EQ == <<"=">>
kw_set == <<"s","e","t">>
kw_call == <<"c","a","l","l">>
kw_import == <<"i","m","p","o","r","t">>
kw_quit == <<"q","u","i","t">>
kw_exit == <<"e","x","i","t">>
kw_new == <<"n","e","w">>
id_x == <<"x">>
id_y == <<"y">>
id_x1 == <<"x","1">>
id_sys == <<"s","y","s">>
id_math == <<"m","a","t","h">>
id_nosuch == <<"n","o","s","u","c","h">>
id_verbose == <<"v","e","r","b","o","s","e">>
id_Name == <<"N","a","m","e">>
id_Number == <<"N","u","m","b","e","r">>
id_builtins == <<"_","_","b","u","i","l","t","i","n","s","_","_">>
id_int == <<"i","n","t">>
at_gcd == <<"g","c","d">>
at_pi == <<"p","i">>
at_len == <<"_","_","l","e","n","_","_">>
at_exit == kw_exit
at_m == <<"m">>
DOT == <<".">>
str_ab == <<"\"","a","b","\"">>
str_open == <<"\"","a","b">>

(***************************************************************************)
(* Runtime values: Python ints, bools, strings, None and the host objects  *)
(* the language can reach (modules, the engine's own classes, the          *)
(* builtins dictionary).  One record shape for all of them.                *)
(***************************************************************************)
IntV(n) == [t |-> "int", n |-> n, s |-> <<>>]
BoolV(n) == [t |-> "bool", n |-> n, s |-> <<>>]
StrV(s) == [t |-> "str", n |-> 0, s |-> s]
NoneV == [t |-> "none", n |-> 0, s |-> <<>>]
ModuleV(name) == [t |-> "module", n |-> 0, s |-> name]
ClassV(name) == [t |-> "class", n |-> 0, s |-> name]
DictV(name) == [t |-> "dict", n |-> 0, s |-> name]

IsIntLike(v) == v.t \in {"int", "bool"}

(***************************************************************************)
(* Outcomes.  A parse ends with a tree ("ok"), with the engine's parse     *)
(* error ("ParseError": GroveParseError, CalcParseException) or with a     *)
(* host exception (IndexError, TypeError, AttributeError, ValueError).     *)
(* An evaluation ends with a value ("val"), the engine's evaluation error  *)
(* ("EvalError"), its parse error, a host exception or SystemExit.         *)
(* ev lists the host callables invoked and the steps of Call.eval.         *)
(***************************************************************************)
NoTree == [node |-> "none"]
Ok(tree, ev) == [k |-> "ok", tree |-> tree, ev |-> ev]
Raise(exc, ev) == [k |-> exc, tree |-> NoTree, ev |-> ev]
ParseError(ev) == Raise("ParseError", ev)

Val(v, e, ev) == [k |-> "val", v |-> v, env |-> e, ev |-> ev]
Throw(exc, e, ev) == [k |-> exc, v |-> NoneV, env |-> e, ev |-> ev]

\* d[key] = v on a Python dict
Bind(e, key, v) == [n \in DOMAIN e \cup {key} |-> IF n = key THEN v ELSE e[n]]
\* try: return r / except ParseError: alt  (r's host calls stay in the trace)
Try(r, alt) ==
    IF r.k # "ParseError" THEN r ELSE [alt EXCEPT !.ev = r.ev \o @]

EmptyDict == [n \in {} |-> NoneV]

(***************************************************************************)
(* Python's + and - on two values.                                         *)
(***************************************************************************)
PyAdd(a, b) ==
    IF IsIntLike(a) /\ IsIntLike(b) THEN [k |-> "val", v |-> IntV(a.n + b.n)]
    ELSE IF a.t = "str" /\ b.t = "str" THEN [k |-> "val", v |-> StrV(a.s \o b.s)]
    ELSE [k |-> "TypeError", v |-> NoneV]

PySub(a, b) ==
    IF IsIntLike(a) /\ IsIntLike(b) THEN [k |-> "val", v |-> IntV(a.n - b.n)]
    ELSE [k |-> "TypeError", v |-> NoneV]

(***************************************************************************)
(* Expression.match_parens: the three copies that have it share the text.  *)
(* The result is [k, i]: the 0-based index of the matching ")".            *)
(***************************************************************************)
\* a scan that stops at the first ")" whatever the nesting
RECURSIVE match_scan_first_close(_, _, _)
match_scan_first_close(tokens, i, depth) ==
    IF i >= Len(tokens) THEN [k |-> "ParseError", i |-> 0]
    ELSE IF tokens[i + 1] = RP THEN [k |-> "ok", i |-> i]
    ELSE match_scan_first_close(tokens, i + 1, depth)

RECURSIVE match_scan(_, _, _)
match_scan(tokens, i, depth) ==
    IF i >= Len(tokens) THEN [k |-> "ParseError", i |-> 0]
    ELSE LET d == IF tokens[i + 1] = LP THEN depth + 1
                  ELSE IF tokens[i + 1] = RP THEN depth - 1
                  ELSE depth
         IN  IF d = 0 THEN [k |-> "ok", i |-> i]
             ELSE match_scan(tokens, i + 1, d)

match_parens(tokens) ==
    IF Len(tokens) < 2 THEN [k |-> "ParseError", i |-> 0]
    ELSE IF tokens[1] # LP THEN [k |-> "ParseError", i |-> 0]
    ELSE match_scan(tokens, 0, 0)

(***************************************************************************)
(* calc: src/Calc/calc_lang.py.  The environment is the dict `context`.    *)
(***************************************************************************)
RECURSIVE Calc_Expression_parse(_)

Calc_Number_parse(tokens) ==
    IF Len(tokens) # 1 THEN ParseError(<<>>)
    ELSE IF ~isdigit(tokens[1]) THEN ParseError(<<>>)
    ELSE Ok([node |-> "Number", num |-> int(tokens[1])], <<>>)

Calc_Name_parse(tokens) ==
    IF Len(tokens) # 1 THEN ParseError(<<>>)
    ELSE IF ~isalpha(tokens[1]) THEN ParseError(<<>>)
    ELSE Ok([node |-> "Name", name |-> tokens[1]], <<>>)

\* the body Add.parse and Subtract.parse share, op the operator token
Calc_binary_parse(tokens, op, node) ==
    IF Len(tokens) < 7 THEN ParseError(<<>>)
    ELSE IF tokens[1] # op \/ tokens[2] # LP THEN ParseError(<<>>)
    ELSE LET m == match_parens(From(tokens, 1)) IN
         IF m.k # "ok" THEN ParseError(<<>>)
         ELSE LET cut == m.i + 1
                  first == Calc_Expression_parse(Slice(tokens, 2, cut))
                  rest == From(tokens, cut + 1)
              IN  IF first.k # "ok" THEN ParseError(<<>>)
                  ELSE IF Len(rest) < 3 THEN ParseError(<<>>)
                  ELSE IF rest[1] # LP \/ rest[Len(rest)] # RP THEN ParseError(<<>>)
                  ELSE LET second == Calc_Expression_parse(Slice(rest, 1, Len(rest) - 1))
                       IN  IF second.k # "ok" THEN ParseError(<<>>)
                           ELSE Ok([node |-> node, first |-> first.tree,
                                    second |-> second.tree], <<>>)

Calc_Add_parse(tokens) == Calc_binary_parse(tokens, PLUS, "Add")

Calc_Subtract_parse(tokens) == Calc_binary_parse(tokens, MINUS, "Subtract")

\* Expression.__subclasses__(), in the order the classes are defined
Calc_Expression_subclasses == <<"Add", "Subtract", "Number", "Name">>

Calc_subclass_parse(c, tokens) ==
    CASE c = "Add" -> Calc_Add_parse(tokens)
      [] c = "Subtract" -> Calc_Subtract_parse(tokens)
      [] c = "Number" -> Calc_Number_parse(tokens)
      [] c = "Name" -> Calc_Name_parse(tokens)

RECURSIVE Calc_try_subclasses(_, _)
Calc_try_subclasses(tokens, i) ==
    IF i > Len(Calc_Expression_subclasses) THEN ParseError(<<>>)
    ELSE LET r == Calc_subclass_parse(Calc_Expression_subclasses[i], tokens)
         IN  IF r.k = "ParseError" THEN Calc_try_subclasses(tokens, i + 1) ELSE r

Calc_Expression_parse(tokens) == Calc_try_subclasses(tokens, 1)

Calc_Set_parse(tokens) ==
    IF Len(tokens) < 4 THEN ParseError(<<>>)
    ELSE IF tokens[1] # kw_set THEN ParseError(<<>>)
    ELSE LET name == Calc_Name_parse(<<tokens[2]>>) IN
         IF name.k # "ok" THEN ParseError(<<>>)
         ELSE IF tokens[3] # EQ THEN ParseError(<<>>)
         ELSE LET value == Calc_Expression_parse(From(tokens, 3)) IN
              IF value.k # "ok" THEN ParseError(<<>>)
              ELSE Ok([node |-> "Set", name |-> name.tree, value |-> value.tree], <<>>)

Calc_Statement_parse(tokens) == Calc_Set_parse(tokens)

Calc_Command_parse(s) ==
    LET tokens == split(strip(s), <<>>)
        st == Calc_Statement_parse(tokens)
    IN  IF st.k # "ParseError" THEN st
        ELSE LET ex == Calc_Expression_parse(tokens)
             IN  IF ex.k # "ParseError" THEN ex ELSE ParseError(<<>>)

RECURSIVE Calc_eval(_, _)

Calc_Number_eval(tree, e) == Val(IntV(tree.num), e, <<>>)

Calc_Name_eval(tree, e) ==
    IF tree.name \in DOMAIN e THEN Val(e[tree.name], e, <<>>)
    ELSE Throw("EvalError", e, <<>>)

Calc_Add_eval(tree, e) ==
    LET a == Calc_eval(tree.first, e) IN
    IF a.k # "val" THEN a
    ELSE LET b == Calc_eval(tree.second, a.env) IN
         IF b.k # "val" THEN b
         ELSE LET r == PyAdd(a.v, b.v) IN
              IF r.k = "val" THEN Val(r.v, b.env, <<>>) ELSE Throw(r.k, b.env, <<>>)

Calc_Subtract_eval(tree, e) ==
    LET a == Calc_eval(tree.first, e) IN
    IF a.k # "val" THEN a
    ELSE LET b == Calc_eval(tree.second, a.env) IN
         IF b.k # "val" THEN b
         ELSE LET r == PySub(a.v, b.v) IN
              IF r.k = "val" THEN Val(r.v, b.env, <<>>) ELSE Throw(r.k, b.env, <<>>)

Calc_Set_eval(tree, e) ==
    LET v == Calc_eval(tree.value, e) IN
    IF v.k # "val" THEN v
    ELSE Val(NoneV, Bind(v.env, tree.name.name, v.v), <<>>)

Calc_eval(tree, e) ==
    CASE tree.node = "Number" -> Calc_Number_eval(tree, e)
      [] tree.node = "Name" -> Calc_Name_eval(tree, e)
      [] tree.node = "Add" -> Calc_Add_eval(tree, e)
      [] tree.node = "Subtract" -> Calc_Subtract_eval(tree, e)
      [] tree.node = "Set" -> Calc_Set_eval(tree, e)

(***************************************************************************)
(* The host (Python) as far as the vocabulary reaches it.                  *)
(***************************************************************************)
\* one entry of an outcome's ev
Ev(e, a, args) == [e |-> e, a |-> a, args |-> args]

\* the modules importlib.import_module finds among the vocabulary's tokens
HostModules == {id_sys, id_math}

\* name in dir(v) and callable(getattr(v, name)), for the vocabulary's names:
\* "absent", "data" or "callable"
HostAttr(v, name) ==
    CASE v.t = "module" /\ v.s = id_math /\ name = at_gcd -> "callable"
      [] v.t = "module" /\ v.s = id_math /\ name = at_pi -> "data"
      [] v.t = "module" /\ v.s = id_sys /\ name = at_exit -> "callable"
      [] v.t = "str" /\ name = at_len -> "callable"
      [] v.t = "dict" /\ name = at_len -> "callable"
      [] OTHER -> "absent"

RECURSIVE gcd2(_, _)
gcd2(a, b) == IF b = 0 THEN a ELSE gcd2(b, a % b)
Abs(n) == IF n < 0 THEN -n ELSE n
RECURSIVE gcdAll(_)
gcdAll(args) ==
    IF Len(args) = 0 THEN 0 ELSE gcd2(Abs(args[1].n), gcdAll(Tail(args)))

\* getattr(v, name)(*args) for a callable attribute: [k, v]
HostInvoke(v, name, args) ==
    CASE v.t = "module" /\ v.s = id_math /\ name = at_gcd ->
            IF \A i \in 1..Len(args) : IsIntLike(args[i])
            THEN [k |-> "val", v |-> IntV(gcdAll(args))]
            ELSE [k |-> "TypeError", v |-> NoneV]
      [] v.t = "module" /\ v.s = id_sys /\ name = at_exit ->
            IF Len(args) <= 1 THEN [k |-> "SystemExit", v |-> NoneV]
            ELSE [k |-> "TypeError", v |-> NoneV]
      [] v.t = "str" /\ name = at_len ->
            IF Len(args) = 0 THEN [k |-> "val", v |-> IntV(Len(v.s))]
            ELSE [k |-> "TypeError", v |-> NoneV]
      [] OTHER -> [k |-> "TypeError", v |-> NoneV]

\* key in d and d[key]() for the builtins dictionary: int() is 0
HostDictHas(d, key) == d.s = id_builtins /\ key = id_int
HostDictCall(d, key) == IntV(0)

(***************************************************************************)
(* suite: src/test_suite/grove_lang.py.  The environment is globals(),     *)
(* the module's own namespace: it starts with the module's names (of       *)
(* which the vocabulary can spell verbose, sys, Name, Number and           *)
(* __builtins__) and the code reads its classes and modules from it each   *)
(* time it names them.                                                     *)
(***************************************************************************)
Suite_globals ==
    [n \in {id_verbose, id_sys, id_Name, id_Number, id_builtins} |->
        CASE n = id_verbose -> BoolV(0)
          [] n = id_sys -> ModuleV(id_sys)
          [] n = id_Name -> ClassV(id_Name)
          [] n = id_Number -> ClassV(id_Number)
          [] n = id_builtins -> DictV(id_builtins)]

\* cls(...): calling what the global name cls is bound to
Suite_new(g, cls, node) ==
    IF g[cls] = ClassV(cls) THEN Ok(node, <<>>) ELSE Raise("TypeError", <<>>)

RECURSIVE Suite_Expression_parse(_, _)

Suite_Number_parse(tokens, g) ==
    IF Len(tokens) # 1 THEN ParseError(<<>>)
    ELSE IF ~isdigit(tokens[1]) THEN ParseError(<<>>)
    ELSE Suite_new(g, id_Number, [node |-> "Number", num |-> int(tokens[1])])

Suite_StringLiteral_parse(tokens, g) ==
    IF Len(tokens) # 1 THEN ParseError(<<>>)
    ELSE IF tokens[1][1] # "\"" \/ tokens[1][Len(tokens)] # "\"" THEN ParseError(<<>>)
    ELSE Ok([node |-> "StringLiteral",
             string |-> SubSeq(tokens[1], 2, Len(tokens[1]) - 1)], <<>>)

Suite_Object_parse(tokens, g) ==
    IF Len(tokens) # 2 THEN ParseError(<<>>)
    ELSE IF tokens[1] # kw_new THEN ParseError(<<>>)
    ELSE LET pieces == splitOn(tokens[2], ".", <<>>) IN
         IF pieces[1] \in DOMAIN g
         THEN IF Len(pieces) = 1
              THEN Ok([node |-> "Object", object |-> g[pieces[1]]], <<>>)
              ELSE IF g[pieces[1]].t = "dict"
                   THEN IF HostDictHas(g[pieces[1]], pieces[2])
                        THEN Ok([node |-> "Object",
                                 object |-> HostDictCall(g[pieces[1]], pieces[2])],
                                <<Ev("hostcall", pieces[2], <<>>)>>)
                        ELSE ParseError(<<>>)
                   ELSE IF HostAttr(g[pieces[1]], pieces[2]) # "absent"
                        THEN Ok([node |-> "Object", object |-> StrV(pieces[2])], <<>>)
                        ELSE Raise("ValueError", <<>>)
         ELSE ParseError(<<>>)

Suite_Name_parse(tokens, g) ==
    IF Len(tokens) # 1 THEN ParseError(<<>>)
    ELSE IF ~isalphaChar(tokens[1][1]) THEN ParseError(<<>>)
    ELSE IF ~isalnum(replace(tokens[1], "_")) THEN ParseError(<<>>)
    ELSE IF tokens[1] = kw_call THEN ParseError(<<>>)
    ELSE Suite_new(g, id_Name, [node |-> "Name", name |-> tokens[1]])

\* Name.parse(...) as Assignment.parse and Call.parse write it: the attribute
\* parse of what the global name Name is bound to
Suite_Name_dot_parse(tokens, g) ==
    IF g[id_Name] = ClassV(id_Name) THEN Suite_Name_parse(tokens, g)
    ELSE Raise("AttributeError", <<>>)

\* the loop of Call.parse over range(len(paramTokens) + 1): [args, ev]
RECURSIVE Suite_Call_args(_, _, _, _, _, _)
Suite_Call_args(paramTokens, i, n, args, ev, g) ==
    IF i > n THEN [args |-> args, ev |-> ev]
    ELSE LET upto == IF i < Len(paramTokens) THEN i ELSE Len(paramTokens)
             r == Suite_Expression_parse(Slice(paramTokens, 0, upto), g)
         IN  IF r.k = "ok"
             THEN Suite_Call_args(From(paramTokens, upto), i + 1, n,
                                  Append(args, r.tree), ev \o r.ev, g)
             ELSE Suite_Call_args(paramTokens, i + 1, n, args, ev \o r.ev, g)

Suite_Call_parse(tokens, g) ==
    IF Len(tokens) < 5 THEN ParseError(<<>>)
    ELSE IF tokens[1] # kw_call THEN ParseError(<<>>)
    ELSE IF tokens[2] # LP THEN ParseError(<<>>)
    ELSE IF tokens[Len(tokens)] # RP THEN ParseError(<<>>)
    ELSE LET ref == Suite_Name_dot_parse(Slice(tokens, 2, 3), g) IN
         IF ref.k # "ok" THEN ref
         ELSE LET paramTokens == Slice(tokens, 4, Len(tokens) - 1)
                  printed == <<Ev("print", <<>>, <<>>)>>
                  a == Suite_Call_args(paramTokens, 0, Len(paramTokens), <<>>, printed, g)
              IN  Ok([node |-> "Call", ref |-> ref.tree, method |-> tokens[4],
                      args |-> a.args], a.ev)

Suite_Addition_parse(tokens, g) ==
    IF Len(tokens) < 7 THEN ParseError(<<>>)
    ELSE IF tokens[1] # PLUS \/ tokens[2] # LP THEN ParseError(<<>>)
    ELSE LET m == match_parens(From(tokens, 1)) IN
         IF m.k # "ok" THEN ParseError(<<>>)
         ELSE LET cut == m.i + 1
                  first == Suite_Expression_parse(Slice(tokens, 2, cut), g)
                  rest == From(tokens, cut + 1)
              IN  IF first.k # "ok" THEN first
                  ELSE IF Len(rest) < 3 THEN ParseError(first.ev)
                  ELSE IF rest[1] # LP \/ rest[Len(rest)] # RP THEN ParseError(first.ev)
                  ELSE LET second == Suite_Expression_parse(
                                         Slice(rest, 1, Len(rest) - 1), g)
                       IN  IF second.k # "ok"
                           THEN Raise(second.k, first.ev \o second.ev)
                           ELSE Ok([node |-> "Addition", first |-> first.tree,
                                    second |-> second.tree], first.ev \o second.ev)

Suite_Import_parse(tokens, g) ==
    IF Len(tokens) # 2 THEN ParseError(<<>>)
    ELSE IF tokens[1] # kw_import THEN ParseError(<<>>)
    ELSE Ok([node |-> "Import", mod |-> tokens[2]], <<>>)

Suite_Terminate_parse(tokens, g) ==
    IF Len(tokens) > 1 THEN ParseError(<<>>)
    ELSE IF Len(tokens) = 0 THEN Raise("IndexError", <<>>)
    ELSE IF tokens[1] # kw_quit /\ tokens[1] # kw_exit THEN ParseError(<<>>)
    ELSE Ok([node |-> "Terminate", term |-> tokens[1]], <<>>)

\* Expression.__subclasses__(), in the order the classes are defined
Suite_Expression_subclasses ==
    <<"Number", "StringLiteral", "Object", "Call", "Addition", "Name",
      "Import", "Terminate">>

Suite_subclass_parse(c, tokens, g) ==
    CASE c = "Number" -> Suite_Number_parse(tokens, g)
      [] c = "StringLiteral" -> Suite_StringLiteral_parse(tokens, g)
      [] c = "Object" -> Suite_Object_parse(tokens, g)
      [] c = "Call" -> Suite_Call_parse(tokens, g)
      [] c = "Addition" -> Suite_Addition_parse(tokens, g)
      [] c = "Name" -> Suite_Name_parse(tokens, g)
      [] c = "Import" -> Suite_Import_parse(tokens, g)
      [] c = "Terminate" -> Suite_Terminate_parse(tokens, g)

RECURSIVE Suite_try_subclasses(_, _, _, _)
Suite_try_subclasses(tokens, g, i, ev) ==
    IF i > Len(Suite_Expression_subclasses) THEN ParseError(ev)
    ELSE LET r == Suite_subclass_parse(Suite_Expression_subclasses[i], tokens, g)
         IN  IF r.k = "ParseError"
             THEN Suite_try_subclasses(tokens, g, i + 1, ev \o r.ev)
             ELSE [r EXCEPT !.ev = ev \o r.ev]

Suite_Expression_parse(tokens, g) == Suite_try_subclasses(tokens, g, 1, <<>>)

\* Assignment(name, value) once both parts are parsed
Suite_Assignment_new(tokens, name, value) ==
    IF name.k # "ok" THEN name
    ELSE IF tokens[3] # EQ THEN ParseError(<<>>)
    ELSE IF value.k # "ok" THEN value
    ELSE Ok([node |-> "Assignment", name |-> name.tree, value |-> value.tree],
            value.ev)

Suite_Assignment_parse(tokens, g) ==
    IF Len(tokens) < 4 THEN ParseError(<<>>)
    ELSE IF tokens[1] # kw_set THEN ParseError(<<>>)
    ELSE Suite_Assignment_new(tokens, Suite_Name_dot_parse(<<tokens[2]>>, g),
                              Suite_Expression_parse(From(tokens, 3), g))

Suite_Statement_parse(tokens, g) ==
    Try(Suite_Assignment_parse(tokens, g),
        Try(Suite_Terminate_parse(tokens, g),
            Try(Suite_Import_parse(tokens, g), ParseError(<<>>))))

Suite_Command_parse(s, g) ==
    Try(Suite_Statement_parse(split(strip(s), <<>>), g),
        Try(Suite_Expression_parse(split(strip(s), <<>>), g), ParseError(<<>>)))

RECURSIVE Suite_eval(_, _)

Suite_Number_eval(tree, g) == Val(IntV(tree.num), g, <<>>)

Suite_StringLiteral_eval(tree, g) == Val(StrV(tree.string), g, <<>>)

Suite_Object_eval(tree, g) == Val(tree.object, g, <<>>)

Suite_Name_eval(tree, g) ==
    IF tree.name \in DOMAIN g THEN Val(g[tree.name], g, <<>>)
    ELSE Throw("EvalError", g, <<>>)

\* [arg.eval() for arg in self.args], left to right: [k, vals, env, ev]
RECURSIVE Suite_Call_arg_values(_, _, _, _, _)
Suite_Call_arg_values(args, i, vals, g, ev) ==
    IF i > Len(args) THEN [k |-> "val", vals |-> vals, env |-> g, ev |-> ev]
    ELSE LET r == Suite_eval(args[i], g) IN
         IF r.k # "val"
         THEN [k |-> r.k, vals |-> vals, env |-> r.env,
               ev |-> ev \o <<Ev("arg", <<>>, <<>>)>> \o r.ev]
         ELSE Suite_Call_arg_values(args, i + 1, Append(vals, r.v), r.env,
                                    ev \o <<Ev("arg", <<>>, <<r.v>>)>> \o r.ev)

Suite_Call_eval(tree, g) ==
    LET ref == Suite_eval(tree.ref, g) IN
    IF ref.k # "val" THEN Throw("EvalError", ref.env, <<>>)
    ELSE IF HostAttr(ref.v, tree.method) = "absent"
    THEN Throw("EvalError", g, <<Ev("dir", tree.method, <<>>)>>)
    ELSE IF HostAttr(ref.v, tree.method) # "callable"
    THEN Throw("EvalError", g, <<Ev("dir", tree.method, <<>>),
                                 Ev("callable", tree.method, <<>>)>>)
    ELSE LET looked == <<Ev("dir", tree.method, <<>>), Ev("callable", tree.method, <<>>)>>
             a == Suite_Call_arg_values(tree.args, 1, <<>>, g, looked)
         IN  IF a.k # "val" THEN Throw("ParseError", a.env, a.ev)
             ELSE LET r == HostInvoke(ref.v, tree.method, a.vals)
                      done == a.ev \o <<Ev("invoke", tree.method, a.vals)>>
                  IN  IF r.k = "val" THEN Val(r.v, a.env, done)
                      ELSE Throw("ParseError", a.env, done)

Suite_Addition_eval(tree, g) ==
    LET a == Suite_eval(tree.first, g) IN
    IF a.k # "val" THEN a
    ELSE LET b == Suite_eval(tree.second, a.env) IN
         IF b.k # "val" THEN [b EXCEPT !.ev = a.ev \o b.ev]
         ELSE LET r == PyAdd(a.v, b.v) IN
              IF r.k = "val" THEN Val(r.v, b.env, a.ev \o b.ev)
              ELSE Throw(r.k, b.env, a.ev \o b.ev)

Suite_Assignment_eval(tree, g) ==
    LET v == Suite_eval(tree.value, g) IN
    IF v.k # "val" THEN v
    ELSE Val(NoneV, Bind(v.env, tree.name.name, v.v), v.ev)

Suite_Import_eval(tree, g) ==
    IF tree.mod \in HostModules
    THEN Val(NoneV, Bind(g, tree.mod, ModuleV(tree.mod)), <<>>)
    ELSE Throw("ModuleNotFoundError", g, <<>>)

\* sys.exit(): the attribute exit of what the global name sys is bound to
Suite_Terminate_eval(tree, g) ==
    IF g[id_sys] = ModuleV(id_sys) THEN Throw("SystemExit", g, <<>>)
    ELSE Throw("AttributeError", g, <<>>)

Suite_eval(tree, g) ==
    CASE tree.node = "Number" -> Suite_Number_eval(tree, g)
      [] tree.node = "StringLiteral" -> Suite_StringLiteral_eval(tree, g)
      [] tree.node = "Object" -> Suite_Object_eval(tree, g)
      [] tree.node = "Call" -> Suite_Call_eval(tree, g)
      [] tree.node = "Addition" -> Suite_Addition_eval(tree, g)
      [] tree.node = "Name" -> Suite_Name_eval(tree, g)
      [] tree.node = "Assignment" -> Suite_Assignment_eval(tree, g)
      [] tree.node = "Import" -> Suite_Import_eval(tree, g)
      [] tree.node = "Terminate" -> Suite_Terminate_eval(tree, g)

(***************************************************************************)
(* root: src/grove_lang.py.  Command, Expression and Statement are empty   *)
(* classes: there is no dispatcher and no match_parens, and a client can   *)
(* only call the productions one by one.  The environment is the dict      *)
(* `context`.                                                              *)
(***************************************************************************)
Root_Number_parse(tokens) ==
    IF Len(tokens) # 1 THEN ParseError(<<>>)
    ELSE IF ~isdigit(tokens[1]) THEN ParseError(<<>>)
    ELSE Ok([node |-> "Number", num |-> int(tokens[1])], <<>>)

Root_StringLiteral_parse(tokens) ==
    IF Len(tokens) # 1 THEN ParseError(<<>>)
    ELSE Ok([node |-> "StringLiteral", string |-> tokens[1]], <<>>)

\* no name of the module is bound to a value whose type is exactly `object`
Root_Object_parse(tokens) == ParseError(<<>>)

Root_Call_parse(tokens, c) ==
    IF Len(tokens) < 6 THEN ParseError(<<>>)
    ELSE IF tokens[1] # kw_call THEN ParseError(<<>>)
    ELSE IF tokens[2] # LP THEN ParseError(<<>>)
    ELSE IF tokens[Len(tokens)] # RP THEN ParseError(<<>>)
    ELSE IF tokens[3] \notin DOMAIN c THEN ParseError(<<>>)
    ELSE IF HostAttr(c[tokens[3]], tokens[4]) = "absent" THEN ParseError(<<>>)
    ELSE IF HostAttr(c[tokens[3]], tokens[4]) # "callable" THEN ParseError(<<>>)
    ELSE Ok([node |-> "Call", ref |-> tokens[3], method |-> tokens[4],
             args |-> Slice(tokens, 4, Len(tokens) - 2)], <<>>)

\* Expression.match_parens does not exist in this copy
Root_Addition_parse(tokens) ==
    IF Len(tokens) < 7 THEN ParseError(<<>>)
    ELSE IF tokens[1] # PLUS \/ tokens[2] # LP THEN ParseError(<<>>)
    ELSE Raise("AttributeError", <<>>)

Root_Name_parse(tokens) ==
    IF Len(tokens) # 1 THEN ParseError(<<>>)
    ELSE IF ~isalphaChar(tokens[1][1]) THEN ParseError(<<>>)
    ELSE IF \A i \in 1..Len(tokens[1]) : isalphaChar(tokens[1][i]) \/ tokens[1][i] = "_"
    THEN ParseError(<<>>)
    ELSE Ok([node |-> "Name", name |-> tokens[1]], <<>>)

\* Expression.parse does not exist in this copy
Root_Assignment_parse(tokens) ==
    IF Len(tokens) < 4 THEN ParseError(<<>>)
    ELSE IF tokens[1] # kw_set THEN ParseError(<<>>)
    ELSE IF Root_Name_parse(<<tokens[2]>>).k # "ok" THEN ParseError(<<>>)
    ELSE IF tokens[3] # EQ THEN ParseError(<<>>)
    ELSE Raise("AttributeError", <<>>)

\* Terminate has no __init__: Terminate(tokens[0]) takes no arguments
Root_Terminate_parse(tokens) ==
    IF Len(tokens) > 1 THEN ParseError(<<>>)
    ELSE IF Len(tokens) = 0 THEN Raise("IndexError", <<>>)
    ELSE IF tokens[1] # kw_quit /\ tokens[1] # kw_exit THEN ParseError(<<>>)
    ELSE Raise("TypeError", <<>>)

\* class Import(Expression): pass
Root_Import_parse(tokens) == Raise("AttributeError", <<>>)

\* class Command(object): pass
Root_Command_parse(s) == Raise("AttributeError", <<>>)

Root_classes ==
    {"Number", "StringLiteral", "Object", "Call", "Addition", "Name",
     "Assignment", "Import", "Terminate"}

Root_class_parse(c, tokens, ctx) ==
    CASE c = "Number" -> Root_Number_parse(tokens)
      [] c = "StringLiteral" -> Root_StringLiteral_parse(tokens)
      [] c = "Object" -> Root_Object_parse(tokens)
      [] c = "Call" -> Root_Call_parse(tokens, ctx)
      [] c = "Addition" -> Root_Addition_parse(tokens)
      [] c = "Name" -> Root_Name_parse(tokens)
      [] c = "Assignment" -> Root_Assignment_parse(tokens)
      [] c = "Import" -> Root_Import_parse(tokens)
      [] c = "Terminate" -> Root_Terminate_parse(tokens)

Root_Name_eval(tree, c) ==
    IF tree.name \in DOMAIN c THEN Val(c[tree.name], c, <<>>)
    ELSE Throw("EvalError", c, <<>>)

\* the arguments are the tokens themselves, not their values
Root_Call_eval(tree, c) ==
    LET vals == [i \in 1..Len(tree.args) |-> StrV(tree.args[i])]
        r == HostInvoke(c[tree.ref], tree.method, vals)
        done == <<Ev("invoke", tree.method, vals)>>
    IN  IF r.k = "val" THEN Val(r.v, c, done)
        ELSE IF r.k = "SystemExit" THEN Throw("SystemExit", c, done)
        ELSE Throw("EvalError", c, done)

Root_eval(tree, c) ==
    CASE tree.node = "Number" -> Val(IntV(tree.num), c, <<>>)
      [] tree.node = "StringLiteral" -> Val(StrV(tree.string), c, <<>>)
      [] tree.node = "Name" -> Root_Name_eval(tree, c)
      [] tree.node = "Call" -> Root_Call_eval(tree, c)

(***************************************************************************)
(* The input vocabulary: the lines a session may enter.                    *)
(***************************************************************************)
n1 == <<"1">>
n2 == <<"2">>
n5 == <<"5">>
n7 == <<"7">>
n10 == <<"1","0">>
n007 == <<"0","0","7">>
tk_builtins_int == id_builtins \o DOT \o id_int
tk_math_pi == id_math \o DOT \o at_pi
tk_math_m == id_math \o DOT \o at_m

\* the tokens  op ( a ) ( b )  for two token lists a and b
Bin(op, a, b) == <<op, LP>> \o a \o <<RP, LP>> \o b \o <<RP>>
\* the tokens  call ( r m args )
CallOf(r, m, args) == <<kw_call, LP, r, m>> \o args \o <<RP>>
\* the tokens  set n = e
SetOf(n, e) == <<kw_set, n, EQ>> \o e

ArithLines ==
    {Bin(op, <<Decimal(a)>>, <<Decimal(b)>>) :
        op \in {PLUS, MINUS}, a \in 0..MaxNum, b \in 0..MaxNum}

NestedLines ==
    { Bin(PLUS, <<n1>>, Bin(MINUS, <<n5>>, <<n2>>)),
      Bin(PLUS, Bin(PLUS, <<n1>>, <<n2>>), <<n5>>),
      Bin(MINUS, Bin(PLUS, <<n1>>, <<n2>>), <<n7>>),
      Bin(PLUS, <<id_x>>, <<n10>>),
      Bin(PLUS, <<str_ab>>, <<n1>>),
      Bin(PLUS, <<str_ab>>, <<str_ab>>),
      Bin(PLUS, <<kw_import, id_math>>, <<n1>>) }

MalformedLines ==
    { <<PLUS, LP, n1, RP, n2>>,
      <<PLUS, LP, n1, RP, n2, n5, n7>>,
      <<MINUS, LP, n1, RP, n2, n5, n7>>,
      <<PLUS, LP, n1, RP, LP, n2>>,
      <<PLUS, LP, n1, RP, LP, n2, RP, n5>>,
      <<PLUS, LP, RP, LP, n1, RP, LP, n2, RP>>,
      <<PLUS, LP, LP, n1, RP, LP, n2, RP>>,
      <<kw_quit, id_x>>,
      <<kw_set, id_x, n5, n7>>,
      <<kw_set, kw_call, EQ, n5>> }

SimpleLines ==
    { <<>>, <<id_x>>, <<id_y>>, <<id_x1>>, <<id_sys>>, <<id_math>>,
      <<id_verbose>>, <<id_Name>>, <<n5>>, <<n007>>, <<str_ab>>, <<str_open>>,
      <<kw_quit>>, <<kw_exit>> }

SetLines ==
    { SetOf(id_x, <<n5>>), SetOf(id_x, <<n7>>), SetOf(id_y, <<str_ab>>),
      SetOf(id_sys, <<n5>>), SetOf(id_Name, <<n5>>), SetOf(id_Number, <<n5>>),
      SetOf(id_x, Bin(PLUS, <<n1>>, <<n2>>)),
      SetOf(id_x, <<kw_import, id_math>>) }

ImportLines ==
    { <<kw_import, id_sys>>, <<kw_import, id_math>>, <<kw_import, id_nosuch>> }

CallLines ==
    { CallOf(id_x, at_m, <<>>), CallOf(id_x, at_m, <<n5, n10>>),
      CallOf(id_y, at_len, <<>>),
      CallOf(id_math, at_gcd, <<>>), CallOf(id_math, at_gcd, <<n5>>),
      CallOf(id_math, at_gcd, <<n5, n10>>), CallOf(id_math, at_gcd, <<n5, n10, n7>>),
      CallOf(id_math, at_gcd, <<id_x>>),
      CallOf(id_math, at_pi, <<>>), CallOf(id_math, at_m, <<>>),
      CallOf(id_sys, at_exit, <<>>), CallOf(n5, at_m, <<>>) }

NewLines ==
    { <<kw_new, id_sys>>, <<kw_new, tk_math_pi>>,
      <<kw_new, tk_math_m>>, <<kw_new, tk_builtins_int>> }

TokenLines ==
    ArithLines \cup NestedLines \cup MalformedLines \cup SimpleLines
    \cup SetLines \cup ImportLines \cup CallLines \cup NewLines

\* the token lists handed to one production of root on its own
ProductionTokens ==
    { Bin(PLUS, <<n1>>, <<n2>>), Bin(MINUS, <<n1>>, <<n2>>),
      Bin(PLUS, <<id_x1>>, <<n2>>),
      <<PLUS, LP, n1, RP, n2>>, <<PLUS, LP, n1, RP, n2, n5, n7>>,
      <<PLUS, LP, RP, LP, n1, RP, LP, n2, RP>>,
      <<>>, <<id_x>>, <<id_x1>>, <<n5>>, <<n007>>, <<str_ab>>,
      <<kw_quit>>, <<kw_exit>>, <<kw_quit, id_x>>,
      SetOf(id_x, <<n5>>), <<kw_import, id_math>>, <<kw_new, id_sys>>,
      CallOf(id_x, at_m, <<>>), CallOf(id_x, at_m, <<n5, n10>>),
      CallOf(n5, at_m, <<>>), <<kw_call, LP, id_x, RP>> }

\* " ".join(tokens)
RECURSIVE Join(_)
Join(tokens) ==
    IF Len(tokens) = 0 THEN <<>>
    ELSE IF Len(tokens) = 1 THEN tokens[1]
    ELSE tokens[1] \o <<" ">> \o Join(Tail(tokens))

\* the lines as typed; a few with blanks around and between the tokens
Lines ==
    {Join(t) : t \in TokenLines}
    \cup { <<" ", " ">> \o kw_quit \o <<" ">>,
           <<" ">> \o kw_set \o <<" ", " ">> \o id_x \o <<" ">> \o EQ \o <<" ">> \o n7,
           <<" ">> }

(***************************************************************************)
(* The state.                                                              *)
(*   impl     which copy of the engine is loaded                           *)
(*   driver   "repl": the loop of grove.py; "api": a client that calls     *)
(*            Command.parse(s).eval() or one production itself             *)
(*   proc     "running", "exited" (break or SystemExit) or "crashed" (an   *)
(*            exception the loop does not catch)                           *)
(*   env      the environment: globals() of suite, `context` of the others *)
(*   last     the last operation: its line, tokens, parse and eval outcome *)
(*   trace    the host callables invoked by the last parse and eval        *)
(*   assigned (history) name -> value bound by the last successful         *)
(*            `set name = e` line                                          *)
(*   muts     how many lines changed the environment                       *)
(***************************************************************************)
NoEval(e) == [k |-> "none", v |-> NoneV, env |-> e, ev |-> <<>>]

Engine_parse(i, s, e) ==
    CASE i = "calc" -> Calc_Command_parse(s)
      [] i = "suite" -> Suite_Command_parse(s, e)
      [] i = "root" -> Root_Command_parse(s)

Engine_eval(i, tree, e) ==
    CASE i = "calc" -> Calc_eval(tree, e)
      [] i = "suite" -> Suite_eval(tree, e)
      [] i = "root" -> Root_eval(tree, e)

\* Command.parse(s).eval()
Run(i, s, e) ==
    LET p == Engine_parse(i, s, e) IN
    [parse |-> p, eval |-> IF p.k = "ok" THEN Engine_eval(i, p.tree, e) ELSE NoEval(e)]

\* cls.parse(tokens).eval() on one production of root
RunProduction(c, tokens, e) ==
    LET p == Root_class_parse(c, tokens, e) IN
    [parse |-> p, eval |-> IF p.k = "ok" THEN Root_eval(p.tree, e) ELSE NoEval(e)]

IsSet(tree) == tree.node \in {"Assignment", "Set"}

Record(op, s, tokens, c, r, out) ==
    [op |-> op, line |-> s, tokens |-> tokens, cls |-> c,
     parse |-> [k |-> r.parse.k, tree |-> r.parse.tree],
     eval |-> [k |-> r.eval.k, v |-> r.eval.v], out |-> out]

Assigned(r, a) ==
    IF r.parse.k = "ok" /\ IsSet(r.parse.tree) /\ r.eval.k = "val"
    THEN Bind(a, r.parse.tree.name.name, r.eval.env[r.parse.tree.name.name])
    ELSE a

Init ==
    /\ impl \in {"calc", "suite", "root"}
    /\ driver \in {"api", "repl"}
    /\ impl = "calc" => driver = "api"
    /\ proc = "running"
    /\ env = IF impl = "suite" THEN Suite_globals ELSE EmptyDict
    /\ last = [op |-> "none", line |-> <<>>, tokens |-> <<>>, cls |-> "none",
               parse |-> [k |-> "none", tree |-> NoTree],
               eval |-> [k |-> "none", v |-> NoneV], out |-> "nothing"]
    /\ trace = [parse |-> <<>>, eval |-> <<>>]
    /\ assigned = EmptyDict
    /\ muts = 0

\* a client evaluates one line: Command.parse(s).eval()
Evaluate(s) ==
    /\ driver = "api"
    /\ proc = "running"
    /\ \E r \in {Run(impl, s, env)} :
       /\ (r.eval.env = env \/ muts < MaxMuts)
       /\ env' = r.eval.env
       /\ muts' = IF r.eval.env = env THEN muts ELSE muts + 1
       /\ last' = Record("line", s, split(strip(s), <<>>), "Command", r, "nothing")
       /\ trace' = [parse |-> r.parse.ev, eval |-> r.eval.ev]
       /\ assigned' = Assigned(r, assigned)
       /\ proc' = IF r.eval.k = "SystemExit" THEN "exited" ELSE "running"
    /\ UNCHANGED <<impl, driver>>

\* a client calls one production of root: cls.parse(tokens).eval()
Production(c, tokens) ==
    /\ driver = "api"
    /\ impl = "root"
    /\ proc = "running"
    /\ \E r \in {RunProduction(c, tokens, env)} :
       /\ env' = r.eval.env
       /\ last' = Record("production", Join(tokens), tokens, c, r, "nothing")
       /\ trace' = [parse |-> r.parse.ev, eval |-> r.eval.ev]
       /\ proc' = IF r.eval.k = "SystemExit" THEN "exited" ELSE "running"
    /\ UNCHANGED <<impl, driver, assigned, muts>>

\* what one turn of the loop prints, and whether the loop goes on
Main_out(r) ==
    CASE r.parse.k = "ParseError" -> "ParseError"
      [] r.parse.k # "ok" -> "traceback"
      [] r.eval.k = "val" -> IF r.eval.v = NoneV THEN "nothing" ELSE "value"
      [] r.eval.k = "ParseError" -> "ParseError"
      [] r.eval.k = "EvalError" -> "EvalError"
      [] r.eval.k = "SystemExit" -> "nothing"
      [] OTHER -> "traceback"

\* one turn of main(): input, the exit test, Command.parse(s).eval(), print
Main(s) ==
    /\ driver = "repl"
    /\ proc = "running"
    /\ IF strip(s) = kw_exit \/ strip(s) = kw_quit
       THEN /\ proc' = "exited"
            /\ last' = [last EXCEPT !.op = "break", !.line = s,
                                    !.tokens = split(strip(s), <<>>),
                                    !.cls = "none",
                                    !.parse = [k |-> "none", tree |-> NoTree],
                                    !.eval = [k |-> "none", v |-> NoneV],
                                    !.out = "goodbye"]
            /\ trace' = [parse |-> <<>>, eval |-> <<>>]
            /\ UNCHANGED <<env, assigned, muts>>
       ELSE \E r \in {Run(impl, s, env)} :
            /\ (r.eval.env = env \/ muts < MaxMuts)
            /\ env' = r.eval.env
            /\ muts' = IF r.eval.env = env THEN muts ELSE muts + 1
            /\ last' = Record("line", s, split(strip(s), <<>>), "Command", r, Main_out(r))
            /\ trace' = [parse |-> r.parse.ev, eval |-> r.eval.ev]
            /\ assigned' = Assigned(r, assigned)
            /\ proc' = IF Main_out(r) = "traceback" THEN "crashed"
                       ELSE IF r.eval.k = "SystemExit" THEN "exited"
                       ELSE "running"
    /\ UNCHANGED <<impl, driver>>

Next ==
    \/ \E s \in Lines : Evaluate(s)
    \/ \E s \in Lines : Main(s)
    \/ \E c \in Root_classes, t \in ProductionTokens : Production(c, t)

Spec == Init /\ [][Next]_vars

(***************************************************************************)
(* Expression.match_parens called on its own, on every sequence of at most *)
(* MaxParenLen tokens drawn from "(", ")" and a numeral.                    *)
(***************************************************************************)
ParenSeqs == UNION {[1..n -> {LP, RP, n1}] : n \in 0..MaxParenLen}

ParensInit ==
    /\ Init
    /\ impl \in {"calc", "suite"}
    /\ driver = "api"

\* a client calls Expression.match_parens(tokens)
MatchParens(tokens) ==
    /\ proc = "running"
    /\ \E m \in {match_parens(tokens)} :
         last' = [op |-> "match_parens", line |-> Join(tokens), tokens |-> tokens,
                  cls |-> "Expression",
                  parse |-> [k |-> m.k,
                             tree |-> IF m.k = "ok" THEN [node |-> "index", i |-> m.i]
                                      ELSE NoTree],
                  eval |-> [k |-> "none", v |-> NoneV], out |-> "nothing"]
    /\ UNCHANGED <<impl, driver, proc, env, trace, assigned, muts>>

ParensNext == \E tokens \in ParenSeqs : MatchParens(tokens)

ParensSpec == ParensInit /\ [][ParensNext]_vars

(***************************************************************************)
(* The properties.  Each is a predicate on the state reached by the last   *)
(* operation: `last` holds its line, tokens and outcome, `env` the         *)
(* environment after it, `trace` the host steps it took.                   *)
(***************************************************************************)
\* the last operation ran Command.parse(line).eval() in a copy that has a
\* dispatcher
DispatchedLine == last.op = "line" /\ impl \in {"calc", "suite"}

\* tokens are  op ( a ) ( b )  with a and b decimal numerals
IsBinaryOfNumbers(tokens, op) ==
    /\ Len(tokens) = 7
    /\ tokens[1] = op /\ tokens[2] = LP /\ tokens[4] = RP
    /\ tokens[5] = LP /\ tokens[7] = RP
    /\ isdigit(tokens[3]) /\ isdigit(tokens[6])

\* C1: evaluating the bare name x yields the value bound by the most recent
\* successfully evaluated `set x = <expr>` line, whatever lines came between.
C1_LookupYieldsLastSet ==
    (/\ DispatchedLine
     /\ Len(last.tokens) = 1
     /\ last.tokens[1] \in DOMAIN assigned)
    => (last.eval.k = "val" /\ last.eval.v = assigned[last.tokens[1]])

\* C2: in every state, the initial one included, evaluating a bare Name that no
\* successful Assignment has targeted fails with the evaluation error and
\* returns no value.
C2_UnassignedNameUndefined ==
    (/\ last.parse.k = "ok"
     /\ last.parse.tree.node = "Name"
     /\ last.parse.tree.name \notin DOMAIN assigned)
    => (last.eval.k = "EvalError" /\ last.eval.v = NoneV)

\* C3: in each copy that defines an addition node (root's and suite's
\* Addition, calc's Add) the tree parsed from `+ ( a ) ( b )` evaluates to a+b.
C3_AdditionOfNumbers ==
    (/\ IsBinaryOfNumbers(last.tokens, PLUS)
     /\ \/ DispatchedLine
        \/ last.op = "production" /\ last.cls = "Addition")
    => (/\ last.parse.k = "ok"
        /\ last.eval.k = "val"
        /\ last.eval.v = IntV(int(last.tokens[3]) + int(last.tokens[6])))

\* C4: the line `- ( a ) ( b )` is accepted by Command.parse as a subtraction
\* and evaluates to a-b, in Grove as well as in Calc.
C4_SubtractionOfNumbers ==
    (DispatchedLine /\ IsBinaryOfNumbers(last.tokens, MINUS))
    => (/\ last.parse.k = "ok"
        /\ last.parse.tree.node \in {"Subtract", "Subtraction"}
        /\ last.eval.k = "val"
        /\ last.eval.v = IntV(int(last.tokens[3]) - int(last.tokens[6])))

\* arithmetic expressions as written on paper: a number n, or op over two
\* expressions
Num(n) == [op |-> "num", n |-> n]
Op(op, e1, e2) == [op |-> op, e1 |-> e1, e2 |-> e2]

\* nesting in the second operand, in the first, and under a subtraction
NestedExprs ==
    { Op("+", Num(1), Op("-", Num(5), Num(2))),
      Op("+", Op("+", Num(1), Num(2)), Num(5)),
      Op("-", Op("+", Num(1), Num(2)), Num(7)) }

RECURSIVE ExprTokens(_)
ExprTokens(e) ==
    IF e.op = "num" THEN <<Decimal(e.n)>>
    ELSE Bin(IF e.op = "+" THEN PLUS ELSE MINUS, ExprTokens(e.e1), ExprTokens(e.e2))

RECURSIVE ExprValue(_)
ExprValue(e) ==
    IF e.op = "num" THEN e.n
    ELSE IF e.op = "+" THEN ExprValue(e.e1) + ExprValue(e.e2)
    ELSE ExprValue(e.e1) - ExprValue(e.e2)

\* the expression a parse tree stands for
RECURSIVE TreeExpr(_)
TreeExpr(tree) ==
    IF tree.node = "Number" THEN Num(tree.num)
    ELSE IF tree.node \in {"Add", "Addition"}
    THEN Op("+", TreeExpr(tree.first), TreeExpr(tree.second))
    ELSE IF tree.node \in {"Subtract", "Subtraction"}
    THEN Op("-", TreeExpr(tree.first), TreeExpr(tree.second))
    ELSE [op |-> tree.node]

\* C5: a well-formed nested arithmetic line `<op> ( e1 ) ( e2 )` is split at
\* the parenthesis matching the first one, parses to a node whose children are
\* the parses of e1 and e2, and evaluates to its arithmetic value; for one,
\* `+ ( 1 ) ( - ( 5 ) ( 2 ) )` yields 4.
C5_NestedArithmetic ==
    \A e \in NestedExprs :
        (DispatchedLine /\ last.tokens = ExprTokens(e))
        => (/\ last.parse.k = "ok"
            /\ TreeExpr(last.parse.tree) = e
            /\ last.eval.k = "val"
            /\ last.eval.v = IntV(ExprValue(e)))

\* tokens are  op ( a ) rest  where rest is not of the form ( ... )
SecondOperandBare(tokens) ==
    /\ Len(tokens) >= 5
    /\ tokens[1] \in {PLUS, MINUS} /\ tokens[2] = LP
    /\ isdigit(tokens[3]) /\ tokens[4] = RP
    /\ (tokens[5] # LP \/ tokens[Len(tokens)] # RP)

\* C6: a binary-operator line whose tokens after the first parenthesized
\* operand do not begin with `(` and end with `)` makes Command.parse fail
\* with a ParseError; no tree is returned and nothing is evaluated.
C6_BareSecondOperandIsParseError ==
    (DispatchedLine /\ SecondOperandBare(last.tokens))
    => (/\ last.parse.k = "ParseError"
        /\ last.parse.tree = NoTree
        /\ last.eval.k = "none")

\* C7: for every token sequence, the empty one and `+ ( ) ( 1 ) ( 2 )`
\* included, Command.parse returns a tree or fails with a ParseError; no
\* other kind of error escapes the dispatcher.
C7_DispatcherRaisesOnlyParseError ==
    DispatchedLine => last.parse.k \in {"ok", "ParseError"}

\* C8: a one-token line t parses to a Terminate node iff t is `quit` or
\* `exit`; constructing and evaluating that node signals termination, and no
\* further line is processed.
C8_TerminateIffQuitOrExit ==
    /\ (last.op = "line" /\ impl = "suite" /\ Len(last.tokens) = 1)
       => /\ (last.parse.k = "ok" /\ last.parse.tree.node = "Terminate")
                <=> last.tokens[1] \in {kw_quit, kw_exit}
          /\ last.tokens[1] \in {kw_quit, kw_exit}
                => (last.eval.k = "SystemExit" /\ proc = "exited")
    /\ (/\ last.op = "production" /\ last.cls = "Terminate"
        /\ Len(last.tokens) = 1)
       => /\ last.parse.k = "ok" <=> last.tokens[1] \in {kw_quit, kw_exit}
          /\ last.parse.k = "ok" => last.eval.k = "SystemExit"

\* tokens are  call ( r m a1 ... an )
IsCallLine(tokens) ==
    /\ Len(tokens) >= 5
    /\ tokens[1] = kw_call /\ tokens[2] = LP /\ tokens[Len(tokens)] = RP
    /\ isalpha(tokens[3])

\* C9: a Call whose receiver name is unbound fails with the evaluation error
\* of an undefined name, not a parse error, before any method lookup,
\* callability check, argument evaluation or invocation.
C9_UnboundReceiverIsEvalError ==
    (/\ IsCallLine(last.tokens)
     /\ last.tokens[3] \notin DOMAIN env
     /\ \/ last.op = "line" /\ impl = "suite"
        \/ last.op = "production" /\ last.cls = "Call")
    => (/\ last.parse.k = "ok"
        /\ last.eval.k = "EvalError"
        /\ trace.eval = <<>>)

\* the token an argument node was parsed from
ArgToken(node) ==
    IF node.node = "Number" THEN Decimal(node.num)
    ELSE IF node.node = "Name" THEN node.name
    ELSE <<>>

\* C10: a Call with n >= 0 single-token arguments parses to a node holding
\* exactly those n arguments in source order, and evaluation invokes the
\* method with their n values, left to right.
C10_CallHoldsEveryArgument ==
    (/\ last.op = "line" /\ impl = "suite"
     /\ IsCallLine(last.tokens)
     /\ last.parse.k = "ok")
    => (/\ Len(last.parse.tree.args) = Len(last.tokens) - 5
        /\ \A i \in 1..Len(last.parse.tree.args) :
               ArgToken(last.parse.tree.args[i]) = last.tokens[4 + i]
        /\ \A j \in 1..Len(trace.eval) :
               trace.eval[j].e = "invoke"
               => Len(trace.eval[j].args) = Len(last.tokens) - 5)

\* C11: every failure raised while evaluating a successfully parsed tree is
\* the evaluation error: never a parse error, never an uncaught host error.
C11_EvalFailuresAreEvalErrors ==
    (last.op \in {"line", "production"} /\ last.parse.k = "ok")
    => last.eval.k \in {"val", "EvalError", "SystemExit"}

\* the tree is an addition or a subtraction node
IsArithNode(tree) ==
    tree.node \in {"Add", "Addition", "Subtract", "Subtraction"}

\* C12: evaluating an Addition or Subtraction node fails whenever an operand
\* evaluates to a non-integer; it never returns a non-integer result such as
\* the concatenation of two strings.
C12_ArithmeticYieldsIntegersOnly ==
    (/\ DispatchedLine
     /\ last.parse.k = "ok"
     /\ IsArithNode(last.parse.tree)
     /\ last.eval.k = "val")
    => (/\ last.eval.v.t = "int"
        /\ Engine_eval(impl, last.parse.tree.first, env).v.t = "int"
        /\ Engine_eval(impl, last.parse.tree.second, env).v.t = "int")

\* the last line failed to parse or to evaluate
LineFailed ==
    /\ last.op = "line"
    /\ \/ last.parse.k # "ok"
       \/ last.eval.k \notin {"val", "SystemExit"}

\* C13: the loop keeps accepting lines after every line whose parse or
\* evaluation fails, reporting the error; it ends only on `exit`, `quit` or
\* an evaluated Terminate, never because of a failing line.
C13_ReplSurvivesFailingLines ==
    /\ (driver = "repl" /\ LineFailed)
       => (proc = "running" /\ last.out \in {"ParseError", "EvalError"})
    /\ (driver = "repl" /\ proc # "running")
       => (last.op = "break" \/ last.eval.k = "SystemExit")

\* the rule of the Name production: one token, first character alphabetic,
\* the others alphanumeric or underscore, and not the word `call`
NameRule(tokens) ==
    /\ Len(tokens) = 1
    /\ Len(tokens[1]) >= 1
    /\ isalphaChar(tokens[1][1])
    /\ \A i \in 2..Len(tokens[1]) : isalnumChar(tokens[1][i]) \/ tokens[1][i] = "_"
    /\ tokens[1] # kw_call

\* token lists on both sides of the rule
NameProbes ==
    { <<id_x>>, <<id_y>>, <<id_x1>>, <<id_math>>, <<kw_call>>, <<kw_quit>>,
      <<<<"x", "_">>>>, <<<<"_", "x">>>>, <<<<"x", "+">>>>,
      <<n5>>, <<str_ab>>, <<>>, <<id_x, id_y>> }

\* Name.parse of the loaded copy
Name_parse(tokens) ==
    CASE impl = "calc" -> Calc_Name_parse(tokens)
      [] impl = "suite" -> Suite_Name_parse(tokens, env)
      [] impl = "root" -> Root_Name_parse(tokens)

\* C14: Name.parse accepts a token sequence iff it is one token whose first
\* character is alphabetic, whose other characters are alphanumeric or
\* underscore, and which is not `call`; so every alphabetic identifier but
\* `call` is accepted.
C14_NameParseIffRule ==
    \A tokens \in NameProbes : (Name_parse(tokens).k = "ok") <=> NameRule(tokens)

\* the nesting depth after the first n tokens
Depth(tokens, n) ==
    Cardinality({j \in 1..n : tokens[j] = LP})
    - Cardinality({j \in 1..n : tokens[j] = RP})

\* the sequence starts a parenthesis that it also closes
ClosesFirstParen(tokens) ==
    /\ Len(tokens) >= 2
    /\ tokens[1] = LP
    /\ \E n \in 1..Len(tokens) : Depth(tokens, n) = 0

\* C15: match_parens returns the index i of the ")" matching the "(" at
\* index 0: i >= 1, tokens[i] is ")", the tokens strictly between are
\* balanced and i is the first index where the depth is back to zero; it
\* fails with a ParseError exactly when the sequence has fewer than 2 tokens,
\* does not begin with "(", or ends before the depth is back to zero.
C15_MatchParensFindsTheMatch ==
    last.op = "match_parens"
    => /\ last.parse.k \in {"ok", "ParseError"}
       /\ last.parse.k = "ok" <=> ClosesFirstParen(last.tokens)
       /\ last.parse.k = "ok"
          => LET i == last.parse.tree.i IN
             /\ i >= 1 /\ i < Len(last.tokens)
             /\ last.tokens[i + 1] = RP
             /\ Depth(last.tokens, i + 1) = 0
             /\ \A n \in 1..i : Depth(last.tokens, n) >= 1
             /\ Depth(last.tokens, i) = 1

\* match_parens has skipped a nested pair: the first ")" is not the match
C15_NestedPairMatched ==
    /\ last.op = "match_parens"
    /\ last.parse.k = "ok"
    /\ \E j \in 2..last.parse.tree.i : last.tokens[j] = RP
    /\ last.parse.tree.i + 1 < Len(last.tokens)

\* the nodes of the Statement variants
StatementNodes == {"Assignment", "Set", "Import", "Terminate"}

\* the children of a node that are parsed as expressions
Children(tree) ==
    IF IsArithNode(tree) THEN <<tree.first, tree.second>>
    ELSE IF tree.node \in {"Assignment", "Set"} THEN <<tree.value>>
    ELSE IF tree.node = "Call" THEN tree.args
    ELSE <<>>

\* no Statement variant at the node or below it
RECURSIVE ExpressionsOnly(_)
ExpressionsOnly(tree) ==
    /\ tree.node \notin StatementNodes
    /\ \A i \in 1..Len(Children(tree)) : ExpressionsOnly(Children(tree)[i])

\* C16: in every tree Command.parse returns, the operands of an addition or
\* subtraction, the value of an Assignment and the arguments of a Call are
\* Expression variants; Assignment, Import and Terminate occur only as the
\* root of a tree.
C16_StatementsOnlyAtRoot ==
    (DispatchedLine /\ last.parse.k = "ok")
    => \A i \in 1..Len(Children(last.parse.tree)) :
           ExpressionsOnly(Children(last.parse.tree)[i])

\* the statement and expression productions of the copies with a dispatcher
Productions ==
    IF impl = "calc" THEN {"Set"} \cup {Calc_Expression_subclasses[i] : i \in 1..4}
    ELSE {"Assignment"} \cup {Suite_Expression_subclasses[i] : i \in 1..8}

\* the production c accepts the tokens in the environment e
Accepts(c, tokens, e) ==
    CASE c = "Set" -> Calc_Set_parse(tokens).k = "ok"
      [] c = "Assignment" -> Suite_Assignment_parse(tokens, e).k = "ok"
      [] impl = "calc" -> Calc_subclass_parse(c, tokens).k = "ok"
      [] OTHER -> Suite_subclass_parse(c, tokens, e).k = "ok"

\* C17: at most one production among the statement and expression
\* productions accepts a token sequence, so the tree the dispatchers return
\* does not depend on the order in which productions are tried.
C17_AtMostOneProductionAccepts ==
    DispatchedLine
    => Cardinality({c \in Productions : Accepts(c, last.tokens, env)}) <= 1

\* an Assignment or Import node at the node or below it
RECURSIVE HasBinder(_)
HasBinder(tree) ==
    \/ tree.node \in {"Assignment", "Set", "Import"}
    \/ \E i \in 1..Len(Children(tree)) : HasBinder(Children(tree)[i])

\* C18: parsing a token sequence, whether it succeeds or every production
\* fails, changes no binding and invokes no host callable; bindings change
\* only while an Assignment or Import node is evaluated.
C18_ParsingHasNoEffect ==
    [][ (last'.op = "line" /\ impl \in {"calc", "suite"})
        => /\ trace'.parse = <<>>
           /\ env' # env => (last'.parse.k = "ok" /\ HasBinder(last'.parse.tree))
      ]_vars

\* C19: if evaluating a line's tree fails with any error, the environment
\* after the failure is the environment before the line: nothing bound while
\* evaluating a part of the line stays behind.
C19_FailedLineLeavesEnvironment ==
    [][ (/\ last'.op = "line" /\ impl \in {"calc", "suite"}
         /\ last'.parse.k = "ok"
         /\ last'.eval.k \notin {"val", "SystemExit"})
        => env' = env
      ]_vars

\* the environment of a fresh interpreter
FreshEnv == IF impl = "suite" THEN Suite_globals ELSE EmptyDict

\* C20: the outcome of parsing a token sequence, the tree or the ParseError,
\* is the same in every reachable environment: no earlier line, whatever
\* names it assigned or imported, changes how a later line parses or makes
\* the parser fail with another error.
C20_ParseIgnoresEnvironment ==
    DispatchedLine
    => \E fresh \in {Engine_parse(impl, last.line, FreshEnv)} :
           /\ last.parse.k = fresh.k
           /\ last.parse.tree = fresh.tree

====
